---- MODULE Spec2Model ----
(***************************************************************************)
(* Model of the search-resolve-scrape pipeline of spotify-find-preview:    *)
(* createSpotifyApi, getSpotifyLinks and searchAndGetLinks.  One call of    *)
(* searchAndGetLinks is followed from its invocation through its three     *)
(* suspension points (credential grant, catalog search, the Promise.all    *)
(* over the per-track page fetches) to the settlement of its promise.      *)
(***************************************************************************)
EXTENDS Integers, Sequences, FiniteSets, TLC

VARIABLES
    env,           \* process.env: SPOTIFY_CLIENT_ID, SPOTIFY_CLIENT_SECRET
    songName,      \* first argument of the call
    artistOrLimit, \* second argument of the call
    limitArg,      \* third argument of the call as supplied (before defaulting)
    pc,            \* where the call is: idle, granting, searching, extracting, returned
    artist,        \* local `artist` (null or a string)
    actualLimit,   \* local `actualLimit`
    sentQuery,     \* the query handed to spotifyApi.searchTracks
    response,      \* searchResults.body as the catalog answered
    tracks,        \* local `tracks`: the retained candidates
    ext,           \* the promises of the per-track callbacks, one per retained candidate
    promise,       \* state of the promise searchAndGetLinks returned
    result,        \* the value that promise settled with
    viaCatch,      \* whether the outer catch block ran
    grantCalls,    \* number of clientCredentialsGrant() requests issued
    searchCalls,   \* number of searchTracks() requests issued
    fetchCalls,    \* number of axios.get() requests issued, per retained candidate
    fetched,       \* per retained candidate, the URL requested and the page it answered
    firstSettled,  \* index of the candidate whose callback settled first (0: none yet)
    caughtValue,   \* the value the outer catch block caught, if it ran
    accessToken    \* the token handed to spotifyApi.setAccessToken

vars == <<env, songName, artistOrLimit, limitArg, pc, artist, actualLimit, sentQuery,
          response, tracks, ext, promise, result, viaCatch, grantCalls, searchCalls,
          fetchCalls, fetched, firstSettled, caughtValue, accessToken>>

-----------------------------------------------------------------------------
(* Bounds of the model *)

\* largest number of matches the catalog answers with
MaxTracks == 6

\* largest number of elements of a page given to the extractor alone
MaxElements == 2

\* largest number of attributes of such an element
MaxAttrs == 2

-----------------------------------------------------------------------------
(* JavaScript values *)

\* undefined / a string / a number / null, as one record shape
Absent == [type |-> "undefined", str |-> "", num |-> 0]
Null == [type |-> "null", str |-> "", num |-> 0]
Str(s) == [type |-> "string", str |-> s, num |-> 0]
Num(n) == [type |-> "number", str |-> "", num |-> n]

\* !v
Falsy(v) ==
    \/ v.type \in {"undefined", "null"}
    \/ v.type = "string" /\ v.str = ""
    \/ v.type = "number" /\ v.num = 0

\* a thrown value: an Error object, or some other value (which may carry a message)
ErrorOf(msg) == [isError |-> TRUE, message |-> msg]
PlainObject(msg) == [isError |-> FALSE, message |-> msg]

\* a completion of a block of code: it returns a value or throws one
Return(v) == [kind |-> "return", value |-> v]
Throw(e) == [kind |-> "throw", value |-> e]

\* String.prototype.includes
Includes(s, sub) ==
    \E i \in 1..(Len(s) - Len(sub) + 1) : SubSeq(s, i, i + Len(sub) - 1) = sub

\* String.prototype.startsWith
StartsWith(s, sub) == Len(s) >= Len(sub) /\ SubSeq(s, 1, Len(sub)) = sub

Min(a, b) == IF a < b THEN a ELSE b
Max(a, b) == IF a > b THEN a ELSE b

-----------------------------------------------------------------------------
(* The catalog and the pages, as the outside world answers *)

RECURSIVE Join(_, _)
\* Array.prototype.join
Join(parts, sep) ==
    IF parts = <<>> THEN ""
    ELSE IF Len(parts) = 1 THEN parts[1]
    ELSE parts[1] \o sep \o Join(Tail(parts), sep)

\* the artists of catalog track i, in catalog order
ArtistsOf(i) == IF i % 2 = 1 THEN <<"Adele">> ELSE <<"Adele", "Sia">>

\* SpotifyApi.TrackObjectFull number i of the catalog
TrackObject(i) ==
    [id |-> "id" \o ToString(i),
     name |-> "Hello" \o ToString(i),
     artists |-> ArtistsOf(i),
     album |-> [name |-> "Album" \o ToString(i), release_date |-> "2015-10-23"],
     popularity |-> 10 * i,
     duration_ms |-> 1000 * i,
     external_urls |-> [spotify |-> "https://open.spotify.com/track/id" \o ToString(i)]]

\* the item lists a search may answer with: 1..n in either order
Ascending(n) == [k \in 1..n |-> TrackObject(k)]
Descending(n) == [k \in 1..n |-> TrackObject(n + 1 - k)]
ItemLists == {Ascending(n) : n \in 0..MaxTracks} \cup {Descending(n) : n \in 2..MaxTracks}

\* searchResults.body as a resolved search delivers it: the tracks field may
\* be absent
SearchBodies ==
    {[answered |-> TRUE, hasTracks |-> FALSE, items |-> <<>>]} \cup
    {[answered |-> TRUE, hasTracks |-> TRUE, items |-> l] : l \in ItemLists}

\* no search has resolved (yet)
NoBody == [answered |-> FALSE, hasTracks |-> FALSE, items |-> <<>>]

\* pages, as cheerio yields them: the elements in document order, each with
\* the values of its attributes
PageWithoutPreview ==
    << <<"og:url", "https://open.spotify.com/track">>, <<>>, <<"">> >>
PageWithPreviews ==
    << <<"og:audio", "https://p.scdn.co/mp3-preview/abc">>,
       <<"https://p.scdn.co/mp3-preview/def">>,
       <<"audio", "https://p.scdn.co/mp3-preview/abc">> >>
Pages == {PageWithoutPreview, PageWithPreviews}

\* the pages given to the extractor alone: up to MaxElements elements of up to
\* MaxAttrs attributes each, with values that carry the CDN host or do not
AttrValues == {"og:audio", "https://p.scdn.co/mp3-preview/abc", "//p.scdn.co/def"}
BoundedSeq(S, n) == UNION {[1..k -> S] : k \in 0..n}
ExtractPages == BoundedSeq(BoundedSeq(AttrValues, MaxAttrs), MaxElements)

\* what a failing request throws
Thrown == {ErrorOf("Network Error"), PlainObject("denied")}

\* what a failing catalog request (grant or search) throws: also an Error with
\* an empty message and a value that is no Error and carries no message
ThrownUpstream == Thrown \cup {ErrorOf(""), PlainObject("")}

\* the arguments and environments a call is made with
SongNames == {Absent, Str(""), Str("Hello")}
SecondArgs == {Absent, Str(""), Str("Adele"), Num(-1), Num(0), Num(2)}
LimitArgs == {Absent, Num(-1), Num(1)}
EnvValues == {Absent, Str(""), Str("secret")}

-----------------------------------------------------------------------------
(* createSpotifyApi *)

\* variant: only the client identifier is required
createSpotifyApiIdOnly(e) ==
    IF Falsy(e.SPOTIFY_CLIENT_ID)
    THEN Throw(ErrorOf(
        "SPOTIFY_CLIENT_ID and SPOTIFY_CLIENT_SECRET environment variables are required"))
    ELSE Return([clientId |-> e.SPOTIFY_CLIENT_ID, clientSecret |-> e.SPOTIFY_CLIENT_SECRET])

\* variant: the client is built without checking the credentials
createSpotifyApiUnchecked(e) ==
    Return([clientId |-> e.SPOTIFY_CLIENT_ID, clientSecret |-> e.SPOTIFY_CLIENT_SECRET])

createSpotifyApi(e) ==
    IF Falsy(e.SPOTIFY_CLIENT_ID) \/ Falsy(e.SPOTIFY_CLIENT_SECRET)
    THEN Throw(ErrorOf(
        "SPOTIFY_CLIENT_ID and SPOTIFY_CLIENT_SECRET environment variables are required"))
    ELSE Return([clientId |-> e.SPOTIFY_CLIENT_ID, clientSecret |-> e.SPOTIFY_CLIENT_SECRET])

-----------------------------------------------------------------------------
(* getSpotifyLinks *)

\* variant: the links are collected in an array, without deduplication
SetAddAlways(set, value) == Append(set, value)

\* Set.prototype.add on a Set kept in insertion order
SetAdd(set, value) ==
    IF \E k \in 1..Len(set) : set[k] = value THEN set ELSE Append(set, value)

RECURSIVE ScanValues(_, _)
\* Object.values(attrs).forEach(...) of one element
ScanValues(values, scdnLinks) ==
    IF values = <<>> THEN scdnLinks
    ELSE ScanValues(Tail(values),
                    IF Head(values) # "" /\ Includes(Head(values), "p.scdn.co")
                    THEN SetAdd(scdnLinks, Head(values))
                    ELSE scdnLinks)

RECURSIVE ScanElements(_, _)
\* $('*').each(...)
ScanElements(elements, scdnLinks) ==
    IF elements = <<>> THEN scdnLinks
    ELSE ScanElements(Tail(elements), ScanValues(Head(elements), scdnLinks))

\* the try block once axios.get resolved with the page
getSpotifyLinksTry(html) == Return(ScanElements(html, <<>>))

\* the catch block
getSpotifyLinksCatch(error) ==
    LET errorMessage == IF error.isError THEN error.message ELSE "Unknown error"
    IN  Throw(ErrorOf("Failed to fetch preview URLs: " \o errorMessage))

-----------------------------------------------------------------------------
(* searchAndGetLinks: the pure steps *)

DefaultLimit == 5

\* variant: only an unsupplied name is refused
SongNameUndefined(name) == name.type = "undefined"

\* if (!songName)
SongNameMissing(name) == Falsy(name)

\* the default of the third parameter
LimitParam(l) == IF l.type = "undefined" THEN DefaultLimit ELSE l.num

\* variant: the legacy numeric form takes the third parameter as the limit
ParseParamsLegacyThird(aol, l) ==
    IF aol.type = "string" THEN [artist |-> Str(aol.str), actualLimit |-> LimitParam(l)]
    ELSE IF aol.type = "number" THEN [artist |-> Null, actualLimit |-> LimitParam(l)]
    ELSE [artist |-> Null, actualLimit |-> DefaultLimit]

\* variant: the third parameter is the limit also when the second is absent
ParseParamsAbsentThird(aol, l) ==
    IF aol.type = "string" THEN [artist |-> Str(aol.str), actualLimit |-> LimitParam(l)]
    ELSE IF aol.type = "number" THEN [artist |-> Null, actualLimit |-> aol.num]
    ELSE [artist |-> Null, actualLimit |-> LimitParam(l)]

\* "Handle backward compatibility and parameter parsing"
ParseParams(aol, l) ==
    IF aol.type = "string" THEN [artist |-> Str(aol.str), actualLimit |-> LimitParam(l)]
    ELSE IF aol.type = "number" THEN [artist |-> Null, actualLimit |-> aol.num]
    ELSE [artist |-> Null, actualLimit |-> DefaultLimit]

\* variant: the artist is appended without the field qualifiers
BuildQueryUnqualified(name, art) ==
    IF ~Falsy(art) THEN name \o " " \o art.str ELSE name

\* "Construct search query with artist if provided"
BuildQuery(name, art) ==
    IF ~Falsy(art)
    THEN "track:\"" \o name \o "\" artist:\"" \o art.str \o "\""
    ELSE name

\* variant: the end index is taken as inclusive
Slice0Inclusive(items, end) ==
    LET len == Len(items)
        k == IF end < 0 THEN Max(len + end + 1, 0) ELSE Min(end + 1, len)
    IN  SubSeq(items, 1, k)

\* variant: a negative end is clamped to zero
Slice0Clamped(items, end) == SubSeq(items, 1, Min(Max(end, 0), Len(items)))

\* Array.prototype.slice(0, end)
Slice0(items, end) ==
    LET len == Len(items)
        k == IF end < 0 THEN Max(len + end, 0) ELSE Min(end, len)
    IN  SubSeq(items, 1, k)

\* variant: only an absent tracks field counts as no match
NoMatchesAbsentOnly(body) == ~body.hasTracks

\* the zero-match test on the search answer
NoMatches(body) == ~body.hasTracks \/ Len(body.items) = 0

\* the TrackInfo the callback builds for a track and its preview URLs
TrackInfoOf(track, previewUrls) ==
    [name |-> track.name \o " - " \o Join(track.artists, ", "),
     spotifyUrl |-> track.external_urls.spotify,
     previewUrls |-> previewUrls,
     trackId |-> track.id,
     albumName |-> track.album.name,
     releaseDate |-> track.album.release_date,
     popularity |-> track.popularity,
     durationMs |-> track.duration_ms]

\* the three return statements
NoSongsFound == Return([success |-> FALSE, searchQuery |-> Absent,
                        results |-> <<>>, error |-> Str("No songs found")])
Success(query, results) == Return([success |-> TRUE, searchQuery |-> Str(query),
                                   results |-> results, error |-> Absent])

\* variant: a caught value that is no Error is thrown on to the caller
CatchBlockRethrow(error) ==
    IF error.isError
    THEN Return([success |-> FALSE, searchQuery |-> Absent,
                 results |-> <<>>, error |-> Str(error.message)])
    ELSE Throw(error)

\* variant: the error field is set only from Error objects
CatchBlockNoError(error) ==
    Return([success |-> FALSE, searchQuery |-> Absent, results |-> <<>>,
            error |-> IF error.isError THEN Str(error.message) ELSE Absent])

\* variant: the message of any caught value that carries one is reported
CatchBlockAnyMessage(error) ==
    LET errorMessage == IF error.message # "" THEN error.message ELSE "Unknown error"
    IN  Return([success |-> FALSE, searchQuery |-> Absent,
                results |-> <<>>, error |-> Str(errorMessage)])

\* the outer catch block
CatchBlock(error) ==
    LET errorMessage == IF error.isError THEN error.message ELSE "Unknown error"
    IN  Return([success |-> FALSE, searchQuery |-> Absent,
                results |-> <<>>, error |-> Str(errorMessage)])


\* a promise of the Promise.all array: pending, fulfilled with a value, or
\* rejected with a reason
Pending == [status |-> "pending", value |-> <<>>, reason |-> <<>>]
Fulfilled(v) == [status |-> "fulfilled", value |-> <<v>>, reason |-> <<>>]
Rejected(e) == [status |-> "rejected", value |-> <<>>, reason |-> <<e>>]

\* variant: rejected elements are dropped and the fulfilled values returned once
\* every element has settled
PromiseAllSettled(promises, i) ==
    IF \E k \in 1..Len(promises) : promises[k].status = "pending"
    THEN [kind |-> "pending", value |-> <<>>]
    ELSE LET kept == SelectSeq(promises, LAMBDA q : q.status = "fulfilled")
         IN  Return([k \in 1..Len(kept) |-> kept[k].value[1]])

\* variant: the values are delivered in completion order, so that of element
\* i, the last to settle, comes last
PromiseAllCompletionOrder(promises, i) ==
    IF promises[i].status = "rejected" THEN Throw(promises[i].reason[1])
    ELSE IF \A k \in 1..Len(promises) : promises[k].status = "fulfilled"
    THEN Return([k \in 1..Len(promises) |->
                    IF k < i THEN promises[k].value[1]
                    ELSE IF k < Len(promises) THEN promises[k + 1].value[1]
                    ELSE promises[i].value[1]])
    ELSE [kind |-> "pending", value |-> <<>>]

\* variant: a rejection is delivered only once every element has settled
PromiseAllWaits(promises, i) ==
    IF \E k \in 1..Len(promises) : promises[k].status = "pending"
    THEN [kind |-> "pending", value |-> <<>>]
    ELSE IF \E k \in 1..Len(promises) : promises[k].status = "rejected"
    THEN Throw(promises[CHOOSE k \in 1..Len(promises) :
                            /\ promises[k].status = "rejected"
                            /\ \A j \in 1..(k - 1) : promises[j].status # "rejected"
                       ].reason[1])
    ELSE Return([k \in 1..Len(promises) |-> promises[k].value[1]])

\* Promise.all, as it reacts to the settlement of element i of the array: it
\* rejects with the reason of a rejected element at once, and fulfils with the
\* values in array order once every element is fulfilled
PromiseAll(promises, i) ==
    IF promises[i].status = "rejected" THEN Throw(promises[i].reason[1])
    ELSE IF \A k \in 1..Len(promises) : promises[k].status = "fulfilled"
    THEN Return([k \in 1..Len(promises) |-> promises[k].value[1]])
    ELSE [kind |-> "pending", value |-> <<>>]

-----------------------------------------------------------------------------
(* The state machine *)

NoResult == [success |-> FALSE, searchQuery |-> Absent, results |-> <<>>, error |-> Absent]

Init ==
    /\ env \in [SPOTIFY_CLIENT_ID : EnvValues, SPOTIFY_CLIENT_SECRET : EnvValues]
    /\ songName = Absent
    /\ artistOrLimit = Absent
    /\ limitArg = Absent
    /\ pc = "idle"
    /\ artist = Null
    /\ actualLimit = DefaultLimit
    /\ sentQuery = Absent
    /\ response = NoBody
    /\ tracks = <<>>
    /\ ext = <<>>
    /\ promise = "pending"
    /\ result = NoResult
    /\ viaCatch = FALSE
    /\ grantCalls = 0
    /\ searchCalls = 0
    /\ fetchCalls = <<>>
    /\ fetched = <<>>
    /\ firstSettled = 0
    /\ caughtValue = <<>>
    /\ accessToken = Absent

\* the async function completes: its promise settles with the completion
Settle(completion, caught) ==
    /\ pc' = "returned"
    /\ promise' = IF completion.kind = "return" THEN "fulfilled" ELSE "rejected"
    /\ result' = completion.value
    /\ viaCatch' = caught

\* the outer catch block runs on a thrown value and its return completes the call
Catch(error) ==
    /\ Settle(CatchBlock(error), TRUE)
    /\ caughtValue' = <<error>>

\* the call itself: the synchronous part of the body, up to the first await
Call(name, second, third) ==
    /\ pc = "idle"
    /\ songName' = name
    /\ artistOrLimit' = second
    /\ limitArg' = third
    /\ UNCHANGED <<env, sentQuery, response, tracks, ext, searchCalls, fetchCalls,
                   fetched, firstSettled, accessToken>>
    /\ IF SongNameMissing(name)
       THEN /\ Catch(ErrorOf("Song name is required"))
            /\ UNCHANGED <<artist, actualLimit, grantCalls>>
       ELSE LET params == ParseParams(second, third)
                spotifyApi == createSpotifyApi(env)
            IN  /\ artist' = params.artist
                /\ actualLimit' = params.actualLimit
                /\ IF spotifyApi.kind = "throw"
                   THEN /\ Catch(spotifyApi.value)
                        /\ UNCHANGED grantCalls
                   ELSE /\ pc' = "granting"
                        /\ grantCalls' = grantCalls + 1
                        /\ UNCHANGED <<promise, result, viaCatch, caughtValue>>

\* clientCredentialsGrant() resolved: the token is set, the query built and
\* the search issued
GrantResolve ==
    /\ pc = "granting"
    /\ sentQuery' = Str(BuildQuery(songName.str, artist))
    /\ searchCalls' = searchCalls + 1
    /\ pc' = "searching"
    /\ accessToken' = Str("access_token")
    /\ UNCHANGED <<env, songName, artistOrLimit, limitArg, artist, actualLimit, response,
                   tracks, ext, promise, result, viaCatch, grantCalls, fetchCalls,
                   fetched, firstSettled, caughtValue>>

\* variant: a rejected grant is requested once more before giving up
GrantRejectRetry(error) ==
    /\ pc = "granting"
    /\ IF grantCalls < 2
       THEN /\ grantCalls' = grantCalls + 1
            /\ UNCHANGED <<pc, promise, result, viaCatch, caughtValue>>
       ELSE /\ Catch(error)
            /\ UNCHANGED grantCalls
    /\ UNCHANGED <<env, songName, artistOrLimit, limitArg, artist, actualLimit, sentQuery,
                   response, tracks, ext, searchCalls, fetchCalls,
                   fetched, firstSettled, accessToken>>

\* clientCredentialsGrant() rejected
GrantReject(error) ==
    /\ pc = "granting"
    /\ Catch(error)
    /\ UNCHANGED <<env, songName, artistOrLimit, limitArg, artist, actualLimit, sentQuery,
                   response, tracks, ext, grantCalls, searchCalls, fetchCalls,
                   fetched, firstSettled, accessToken>>

\* searchTracks() resolved with a body: no match returns at once; otherwise the
\* items are sliced and the callback is started for every retained track,
\* each issuing its page request
SearchResolve(body) ==
    /\ pc = "searching"
    /\ response' = body
    /\ UNCHANGED <<env, songName, artistOrLimit, limitArg, artist, actualLimit, sentQuery,
                   grantCalls, searchCalls, firstSettled, caughtValue, accessToken>>
    /\ IF NoMatches(body)
       THEN /\ Settle(NoSongsFound, FALSE)
            /\ UNCHANGED <<tracks, ext, fetchCalls, fetched>>
       ELSE LET retained == Slice0(body.items, actualLimit)
            IN  /\ tracks' = retained
                /\ ext' = [k \in 1..Len(retained) |-> Pending]
                /\ fetchCalls' = [k \in 1..Len(retained) |-> 1]
                /\ fetched' = [k \in 1..Len(retained) |->
                                  [url |-> retained[k].external_urls.spotify, page |-> <<>>]]
                /\ IF retained = <<>>
                   THEN Settle(Success(sentQuery.str, <<>>), FALSE)
                   ELSE /\ pc' = "extracting"
                        /\ UNCHANGED <<promise, result, viaCatch>>

\* searchTracks() rejected
SearchReject(error) ==
    /\ pc = "searching"
    /\ Catch(error)
    /\ UNCHANGED <<env, songName, artistOrLimit, limitArg, artist, actualLimit, sentQuery,
                   response, tracks, ext, grantCalls, searchCalls, fetchCalls,
                   fetched, firstSettled, accessToken>>

\* the aggregate's reaction to the settlement of element i, while the call
\* still awaits it; a call that has returned is not affected any more
Aggregate(promises, i) ==
    LET all == PromiseAll(promises, i)
    IN  IF pc # "extracting" \/ all.kind = "pending"
        THEN UNCHANGED <<pc, promise, result, viaCatch, caughtValue>>
        ELSE IF all.kind = "throw"
        THEN Catch(all.value)
        ELSE Settle(Success(sentQuery.str, all.value), FALSE) /\ UNCHANGED caughtValue

\* axios.get() of candidate i resolved with a page: the links are scanned and
\* the callback fulfils with the TrackInfo
FetchResolve(i, html) ==
    /\ i \in 1..Len(ext)
    /\ ext[i].status = "pending"
    /\ LET previewUrls == getSpotifyLinksTry(html).value
           promises == [ext EXCEPT ![i] = Fulfilled(TrackInfoOf(tracks[i], previewUrls))]
       IN  /\ ext' = promises
           /\ Aggregate(promises, i)
    /\ fetched' = [fetched EXCEPT ![i].page = <<html>>]
    /\ firstSettled' = IF firstSettled = 0 THEN i ELSE firstSettled
    /\ UNCHANGED <<env, songName, artistOrLimit, limitArg, artist, actualLimit, sentQuery,
                   response, tracks, grantCalls, searchCalls, fetchCalls, accessToken>>

\* axios.get() of candidate i rejected: getSpotifyLinks rethrows, the callback
\* rejects
FetchReject(i, error) ==
    /\ i \in 1..Len(ext)
    /\ ext[i].status = "pending"
    /\ LET promises == [ext EXCEPT ![i] = Rejected(getSpotifyLinksCatch(error).value)]
       IN  /\ ext' = promises
           /\ Aggregate(promises, i)
    /\ firstSettled' = IF firstSettled = 0 THEN i ELSE firstSettled
    /\ UNCHANGED <<env, songName, artistOrLimit, limitArg, artist, actualLimit, sentQuery,
                   response, tracks, grantCalls, searchCalls, fetchCalls, fetched,
                   accessToken>>

Next ==
    \/ \E name \in SongNames, second \in SecondArgs, third \in LimitArgs :
           Call(name, second, third)
    \/ GrantResolve
    \/ \E error \in ThrownUpstream : GrantReject(error)
    \/ \E body \in SearchBodies : SearchResolve(body)
    \/ \E error \in ThrownUpstream : SearchReject(error)
    \/ \E i \in 1..MaxTracks, html \in Pages : FetchResolve(i, html)
    \/ \E i \in 1..MaxTracks, error \in Thrown : FetchReject(i, error)

Spec == Init /\ [][Next]_vars

-----------------------------------------------------------------------------
(* The extractor alone: one call that retained a single candidate and awaits
   its page, which may be any of ExtractPages *)

\* the state of searchAndGetLinks('Hello', 2) once the search has answered
\* with one match and getSpotifyLinks awaits axios.get
ExtractInit ==
    /\ env = [SPOTIFY_CLIENT_ID |-> Str("secret"), SPOTIFY_CLIENT_SECRET |-> Str("secret")]
    /\ songName = Str("Hello")
    /\ artistOrLimit = Num(2)
    /\ limitArg = Absent
    /\ pc = "extracting"
    /\ artist = Null
    /\ actualLimit = 2
    /\ sentQuery = Str("Hello")
    /\ response = [answered |-> TRUE, hasTracks |-> TRUE, items |-> Ascending(1)]
    /\ tracks = Ascending(1)
    /\ ext = <<Pending>>
    /\ promise = "pending"
    /\ result = NoResult
    /\ viaCatch = FALSE
    /\ grantCalls = 1
    /\ searchCalls = 1
    /\ fetchCalls = <<1>>
    /\ fetched = <<[url |-> TrackObject(1).external_urls.spotify, page |-> <<>>]>>
    /\ firstSettled = 0
    /\ caughtValue = <<>>
    /\ accessToken = Str("access_token")

ExtractNext ==
    \/ ext[1].status = "pending" /\ \E html \in ExtractPages : FetchResolve(1, html)
    \/ ext[1].status = "pending" /\ \E error \in ThrownUpstream : FetchReject(1, error)

SpecExtract == ExtractInit /\ [][ExtractNext]_vars

-----------------------------------------------------------------------------
(* Properties *)

Returned == pc = "returned"
Succeeded == Returned /\ promise = "fulfilled" /\ result.success
\* the parameters were parsed: the call got past the song-name check
Parsed == pc # "idle" /\ ~SongNameMissing(songName)
\* a search resolved and reported no match
AnsweredNoMatch == response.answered /\ (~response.hasTracks \/ response.items = <<>>)
\* the call returned on one of its failure paths
FailurePath == Returned /\ (viaCatch \/ AnsweredNoMatch)
\* the shape of every failure result
FailureShape(r) == ~r.success /\ r.results = <<>> /\ r.error.type = "string"
\* the retained candidates whose extraction failed
Rejections == {i \in 1..Len(ext) : ext[i].status = "rejected"}

\* C1: searchAndGetLinks never rejects: whenever the call has completed its
\* promise is fulfilled with a SearchResult, and on every failure path
\* (validation, configuration, grant, search, no match, extraction, non-Error
\* thrown values) that result has success=false, results=[] and a string error.
C1_NeverRejects ==
    /\ promise # "rejected"
    /\ Returned => promise = "fulfilled"
    /\ FailurePath => FailureShape(result)
    /\ (Returned /\ ~FailurePath) => result.success

\* C1 witness: a page request failed with a value that is no Error and the
\* call resolved to a failure result
C1_Witness ==
    /\ Returned /\ promise = "fulfilled" /\ viaCatch
    /\ Rejections # {}
    /\ result.error = Str("Failed to fetch preview URLs: Unknown error")
    /\ FailureShape(result)

\* C2: for every call whose songName is empty or unsupplied, whatever the
\* other arguments and the credentials, the result is exactly
\* {success:false, error:"Song name is required", results:[]}.
C2_SongNameRequired ==
    (Returned /\ (songName.type = "undefined" \/ songName = Str(""))) =>
        /\ promise = "fulfilled"
        /\ result = [success |-> FALSE, searchQuery |-> Absent, results |-> <<>>,
                     error |-> Str("Song name is required")]
        /\ grantCalls = 0

\* C2 witness: an empty name with an artist, a limit and full credentials
C2_Witness ==
    /\ Returned /\ songName = Str("")
    /\ artistOrLimit = Str("Adele") /\ limitArg = Num(1)
    /\ ~Falsy(env.SPOTIFY_CLIENT_ID) /\ ~Falsy(env.SPOTIFY_CLIENT_SECRET)
    /\ result.error = Str("Song name is required")

EnvPhrase == "environment variables are required"
\* a credential is unset
CredentialUnset ==
    env.SPOTIFY_CLIENT_ID.type = "undefined" \/ env.SPOTIFY_CLIENT_SECRET.type = "undefined"
\* a credential is unset or empty
CredentialMissing == Falsy(env.SPOTIFY_CLIENT_ID) \/ Falsy(env.SPOTIFY_CLIENT_SECRET)

\* C3 as stated: every call made while a credential is missing has
\* success=false and an error containing "environment variables are required".
C3_AsStated ==
    (Returned /\ CredentialUnset) =>
        ~result.success /\ Includes(result.error.str, EnvPhrase)

\* C3 amended: every call with a non-empty songName made while a credential is
\* missing (unset or empty) has success=false, results=[] and an error
\* containing "environment variables are required", and issues no request; with
\* an empty songName the error is "Song name is required" instead.
C3_MissingCredentials ==
    /\ (pc # "idle" /\ CredentialMissing /\ ~SongNameMissing(songName)) =>
           /\ Returned /\ promise = "fulfilled"
           /\ FailureShape(result)
           /\ Includes(result.error.str, EnvPhrase)
           /\ grantCalls = 0
    /\ (Returned /\ CredentialMissing /\ SongNameMissing(songName)) =>
           ~Includes(result.error.str, EnvPhrase)

\* C3 witness: a named song, the identifier set and the secret unset
C3_Witness ==
    /\ Returned /\ songName = Str("Hello")
    /\ ~Falsy(env.SPOTIFY_CLIENT_ID) /\ env.SPOTIFY_CLIENT_SECRET = Absent
    /\ Includes(result.error.str, EnvPhrase)

\* the field-qualified query of a song and an artist
Qualified(name, art) == "track:\"" \o name \o "\" artist:\"" \o art \o "\""
\* a search was issued
Searched == sentQuery.type = "string"

\* C4 as stated: whenever secondArg is a string, the empty string included,
\* the query sent and returned is track:"<songName>" artist:"<artist>".
C4_AsStated ==
    (Searched /\ artistOrLimit.type = "string") =>
        /\ sentQuery.str = Qualified(songName.str, artistOrLimit.str)
        /\ Includes(sentQuery.str, "track:\"") /\ Includes(sentQuery.str, "artist:\"")

\* C4 amended: whenever secondArg is a non-empty string it is the artist and
\* the query sent to the catalog and returned as searchQuery is
\* track:"<songName>" artist:"<artist>"; when secondArg is the empty string the
\* query is songName unmodified (limitArg still being the limit).
C4_ArtistQuery ==
    /\ (Parsed /\ artistOrLimit.type = "string") =>
           /\ artist = Str(artistOrLimit.str)
           /\ actualLimit = (IF limitArg.type = "undefined" THEN 5 ELSE limitArg.num)
    /\ (Searched /\ artistOrLimit.type = "string" /\ artistOrLimit.str # "") =>
           /\ sentQuery.str = Qualified(songName.str, artistOrLimit.str)
           /\ Includes(sentQuery.str, "track:\"") /\ Includes(sentQuery.str, "artist:\"")
    /\ (Searched /\ artistOrLimit = Str("")) => sentQuery.str = songName.str
    /\ Succeeded => result.searchQuery = sentQuery

\* C4 witness: a successful search for a song with an artist
C4_Witness ==
    /\ Succeeded /\ artistOrLimit = Str("Adele")
    /\ result.searchQuery = Str("track:\"Hello\" artist:\"Adele\"")
    /\ result.results # <<>>

\* the number of catalog matches the search returned
Matches == Len(response.items)

\* C5 as stated: whenever secondArg is a number N, N is the effective limit
\* whatever limitArg is, the artist is null, the query is songName, and a
\* successful result holds at most N tracks.
C5_AsStated ==
    (Parsed /\ artistOrLimit.type = "number") =>
        /\ actualLimit = artistOrLimit.num
        /\ artist = Null
        /\ Searched => sentQuery.str = songName.str
        /\ Succeeded => Len(result.results) <= artistOrLimit.num

\* C5 amended: whenever secondArg is a number N, N is the effective limit
\* whatever limitArg is, the artist is null and the query is songName; a
\* successful result holds the first min(N, n) of the n matches when N >= 0,
\* and all but the last -N of them (max(0, n + N)) when N < 0.
C5_LegacyLimit ==
    (Parsed /\ artistOrLimit.type = "number") =>
        /\ actualLimit = artistOrLimit.num
        /\ artist = Null
        /\ Searched => sentQuery.str = songName.str
        /\ Succeeded =>
              /\ result.searchQuery = Str(songName.str)
              /\ Len(result.results) =
                    IF artistOrLimit.num >= 0 THEN Min(artistOrLimit.num, Matches)
                    ELSE Max(Matches + artistOrLimit.num, 0)

\* C5 witness: limit 2 with another limitArg, three matches, two tracks returned
C5_Witness ==
    /\ Succeeded /\ artistOrLimit = Num(2) /\ limitArg = Num(1)
    /\ Matches = 3 /\ Len(result.results) = 2

\* C6: whenever secondArg is absent the effective limit is 5 and the query is
\* songName unmodified, also when a limitArg is supplied.
C6_DefaultLimit ==
    (Parsed /\ artistOrLimit.type = "undefined") =>
        /\ actualLimit = 5
        /\ artist = Null
        /\ Searched => sentQuery.str = songName.str
        /\ Succeeded =>
              /\ result.searchQuery = Str(songName.str)
              /\ Len(result.results) = Min(5, Matches)

\* C6 witness: no secondArg, limitArg 1, six matches, five tracks returned
C6_Witness ==
    /\ Succeeded /\ artistOrLimit = Absent /\ limitArg = Num(1)
    /\ Matches = 6 /\ Len(result.results) = 5

\* C7 as stated: in every result, for every effective limit, results.length
\* exceeds neither the effective limit nor the number of catalog matches.
C7_AsStated ==
    (Returned /\ promise = "fulfilled") =>
        /\ Len(result.results) <= actualLimit
        /\ Len(result.results) <= Matches

\* C7 amended: in every result results.length never exceeds the number of
\* catalog matches returned, and never exceeds the effective limit when that
\* limit is not negative; under a negative limit L a successful result holds
\* max(0, n + L) of the n matches and a failure result none, which exceeds L.
C7_LengthBound ==
    (Returned /\ promise = "fulfilled") =>
        /\ Len(result.results) <= Matches
        /\ actualLimit >= 0 => Len(result.results) <= actualLimit
        /\ (actualLimit < 0 /\ result.success) =>
               Len(result.results) = Max(Matches + actualLimit, 0)

\* C7 witness: the limit is reached with a match to spare
C7_Witness ==
    /\ Succeeded /\ actualLimit = 2
    /\ Len(result.results) = 2 /\ Matches > 2

\* C8: when the search succeeds with zero matches (tracks absent or its item
\* list empty) the call has returned {success:false, error:"No songs found",
\* results:[]} in that very step, not through the catch block, and no preview
\* extraction was started.
C8_NoSongsFound ==
    AnsweredNoMatch =>
        /\ Returned /\ promise = "fulfilled"
        /\ result = [success |-> FALSE, searchQuery |-> Absent, results |-> <<>>,
                     error |-> Str("No songs found")]
        /\ ~viaCatch
        /\ ext = <<>> /\ fetchCalls = <<>> /\ tracks = <<>>

\* C8 witness: the tracks field is present and its item list empty
C8_Witness ==
    /\ Returned /\ response.answered /\ response.hasTracks /\ response.items = <<>>
    /\ result.error = Str("No songs found")

\* C9: every SearchResult returned is of one of two shapes: success=true with
\* results (one per retained candidate) and no error, or success=false with a
\* string error and results the empty sequence.
C9_TwoShapes ==
    (Returned /\ promise = "fulfilled") =>
        \/ /\ result.success
           /\ result.error.type = "undefined"
           /\ Len(result.results) = Len(tracks)
        \/ /\ ~result.success
           /\ result.error.type = "string"
           /\ result.results = <<>>

\* C9 witness: the search failed with a thrown value that is no Error
C9_Witness ==
    /\ Returned /\ ~result.success /\ searchCalls = 1 /\ ~response.answered
    /\ result.error = Str("Unknown error")

\* C10: if the extraction of at least one retained candidate failed, the call
\* has resolved to success=false with results=[] and the error of a failed
\* extraction, which begins with "Failed to fetch preview URLs: ", whatever the
\* other extractions did or will do.
C10_AllOrNothing ==
    Rejections # {} =>
        /\ Returned /\ promise = "fulfilled"
        /\ ~result.success
        /\ result.results = <<>>
        /\ \E i \in Rejections : result.error = Str(ext[i].reason[1].message)
        /\ StartsWith(result.error.str, "Failed to fetch preview URLs: ")

\* C10 witness: of three candidates one succeeded first, one then failed and
\* the third is still in flight
C10_Witness ==
    /\ Returned /\ Len(ext) = 3
    /\ \E i, j, k \in 1..3 :
          /\ ext[i].status = "fulfilled"
          /\ ext[j].status = "rejected"
          /\ ext[k].status = "pending"
    /\ result.results = <<>>

\* the preview URLs of each page the model serves, in document order
LinksOnPage(page) ==
    IF page = PageWithPreviews
    THEN <<"https://p.scdn.co/mp3-preview/abc", "https://p.scdn.co/mp3-preview/def">>
    ELSE <<>>

\* C11: on success, whatever the order in which the extractions completed,
\* results[i] is built from the i-th retained catalog candidate (id, URL,
\* metadata) and carries the preview URLs of the page served for that
\* candidate's own URL: results are in catalog order.
C11_CatalogOrder ==
    Succeeded =>
        /\ Len(result.results) = Len(tracks)
        /\ \A i \in 1..Len(result.results) :
              /\ result.results[i].trackId = response.items[i].id
              /\ result.results[i].spotifyUrl = response.items[i].external_urls.spotify
              /\ result.results[i].name =
                    response.items[i].name \o " - " \o Join(response.items[i].artists, ", ")
              /\ result.results[i].albumName = response.items[i].album.name
              /\ result.results[i].popularity = response.items[i].popularity
              /\ fetched[i].url = response.items[i].external_urls.spotify
              /\ result.results[i].previewUrls = LinksOnPage(fetched[i].page[1])

\* C11 witness: three candidates in descending catalog order, the second
\* completed first, the pages of the first two differ, and the call succeeded
C11_Witness ==
    /\ Succeeded /\ Len(result.results) = 3
    /\ response.items = Descending(3)
    /\ firstSettled = 2
    /\ fetched[1].page = <<PageWithPreviews>> /\ fetched[2].page = <<PageWithoutPreview>>
    /\ result.results[1].trackId = "id3"
    /\ result.results[1].previewUrls # <<>> /\ result.results[2].previewUrls = <<>>

\* the retained candidates whose extraction is still in flight
InFlight == {i \in 1..Len(ext) : ext[i].status = "pending"}

\* C12 as stated: the call does not resolve until all started extractions have
\* settled, also when one of them failed.
C12_AsStated == Returned => InFlight = {}

\* C12 amended: the call resolves successfully only once all started
\* extractions have succeeded, and while none has failed and one is in flight
\* it stays suspended; but it resolves to failure as soon as the first
\* extraction fails, without waiting for those still in flight or hung.
C12_SettlesOnFirstFailure ==
    /\ Succeeded => \A i \in 1..Len(ext) : ext[i].status = "fulfilled"
    /\ pc = "extracting" => (Rejections = {} /\ InFlight # {} /\ promise = "pending")
    /\ Rejections # {} => (Returned /\ ~result.success)

\* C12 witness: the first candidate's extraction failed, the call has returned
\* its failure and the second candidate's page request is still in flight
C12_Witness ==
    /\ Returned /\ ~result.success /\ Len(ext) = 2
    /\ ext[1].status = "rejected" /\ ext[2].status = "pending"
    /\ firstSettled = 1

\* C13: no step is retried: within one call the credential grant, the catalog
\* search and the page request of each retained candidate are each issued at
\* most once, exactly once when their turn came, and never again after a
\* failure.
C13_NoRetry ==
    /\ grantCalls <= 1 /\ searchCalls <= 1
    /\ Len(fetchCalls) = Len(tracks)
    /\ \A i \in 1..Len(fetchCalls) : fetchCalls[i] = 1
    /\ pc \in {"granting", "searching", "extracting"} => grantCalls = 1
    /\ pc \in {"searching", "extracting"} => searchCalls = 1
    /\ (Returned /\ caughtValue # <<>>) =>
          grantCalls + searchCalls <= 2 /\ \A i \in Rejections : fetchCalls[i] = 1

\* C13 witness: both extractions failed, after one grant, one search and one
\* page request each
C13_Witness ==
    /\ Returned /\ Len(ext) = 2
    /\ ext[1].status = "rejected" /\ ext[2].status = "rejected"
    /\ grantCalls = 1 /\ searchCalls = 1 /\ fetchCalls = <<1, 1>>

\* the search resolved with at least one match
AnsweredMatches == response.answered /\ response.hasTracks /\ Matches >= 1

\* C14 as stated: with n >= 1 matches the retained candidates are the first
\* limit items; for limit <= 0 none is retained, for limit > n all n are.
C14_AsStated ==
    AnsweredMatches =>
        /\ actualLimit <= 0 => tracks = <<>>
        /\ actualLimit > 0 => tracks = SubSeq(response.items, 1, Min(actualLimit, Matches))

\* C14 amended: with n >= 1 matches the retained candidates are the first
\* limit items of the catalog list when limit >= 0 (none for limit = 0, all n
\* for limit > n); for a negative limit they are all but the last -limit items
\* (the first max(0, n + limit)); no error in any of these cases, and a call
\* that retains none succeeds with results=[].
C14_Retained ==
    AnsweredMatches =>
        /\ actualLimit >= 0 => tracks = SubSeq(response.items, 1, Min(actualLimit, Matches))
        /\ actualLimit < 0 =>
               tracks = SubSeq(response.items, 1, Max(Matches + actualLimit, 0))
        /\ pc = "extracting" \/ caughtValue = <<>> \/ Rejections # {}
        /\ tracks = <<>> => (Succeeded /\ result.results = <<>>)

\* C14 witness: limit -1 and three matches retain the first two
C14_Witness ==
    /\ AnsweredMatches /\ actualLimit = -1 /\ Matches = 3
    /\ tracks = SubSeq(response.items, 1, 2)
    /\ pc = "extracting"

\* the catch block ran on a value thrown by the grant, the search or otherwise
CaughtAtBoundary == Returned /\ caughtValue # <<>>

\* C15 as stated: the error of a failure caught at the outermost boundary is
\* the caught value's own message whenever it carries one, and "Unknown error"
\* only when it carries none.
C15_AsStated ==
    CaughtAtBoundary =>
        /\ caughtValue[1].message # "" => result.error = Str(caughtValue[1].message)
        /\ result.error = Str("Unknown error") => caughtValue[1].message = ""

\* C15 amended: the error of a failure caught at the outermost boundary is the
\* caught value's own message whenever the caught value is an Error object
\* (also when that message is empty), and is "Unknown error" whenever the
\* caught value is not an Error object, whether or not it carries a message.
C15_ErrorMessage ==
    CaughtAtBoundary =>
        /\ viaCatch /\ FailureShape(result)
        /\ caughtValue[1].isError => result.error = Str(caughtValue[1].message)
        /\ ~caughtValue[1].isError => result.error = Str("Unknown error")

\* C15 witness: the credential exchange failed with a plain object carrying
\* the message "denied" and the error reported is "Unknown error"
C15_Witness ==
    /\ CaughtAtBoundary /\ grantCalls = 1 /\ searchCalls = 0
    /\ caughtValue = <<PlainObject("denied")>>
    /\ result.error = Str("Unknown error")

RECURSIVE Flatten(_)
\* all attribute values of a page, in document-scan order
Flatten(page) == IF page = <<>> THEN <<>> ELSE Head(page) \o Flatten(Tail(page))

\* the position of the first occurrence of a value in a sequence
FirstIndex(seq, v) == CHOOSE j \in 1..Len(seq) : seq[j] = v /\ \A h \in 1..(j - 1) : seq[h] # v

\* C16: when the page fetch succeeds the extractor returns exactly the attribute
\* values that contain the CDN-host marker, each distinct value once, in the
\* order of their first occurrence in the document scan; an empty sequence is
\* returned only when no value matched, and a failed fetch returns nothing: it
\* rejects with the prefixed message and the call fails.
C16_Extractor ==
    /\ ext[1].status = "fulfilled" =>
          LET values == Flatten(fetched[1].page[1])
              urls == ext[1].value[1].previewUrls
          IN  /\ {urls[k] : k \in 1..Len(urls)} =
                    {values[j] : j \in {h \in 1..Len(values) : Includes(values[h], "p.scdn.co")}}
              /\ \A a, b \in 1..Len(urls) : a # b => urls[a] # urls[b]
              /\ \A a, b \in 1..Len(urls) :
                    a < b => FirstIndex(values, urls[a]) < FirstIndex(values, urls[b])
              /\ Succeeded /\ result.results[1].previewUrls = urls
    /\ ext[1].status = "rejected" =>
          /\ fetched[1].page = <<>> /\ ext[1].value = <<>>
          /\ StartsWith(ext[1].reason[1].message, "Failed to fetch preview URLs: ")
          /\ Returned /\ ~result.success /\ result.results = <<>>

\* C16 witness: two elements repeat two preview URLs in opposite orders, with
\* another value between; each URL is returned once, in first-occurrence order
C16_Witness ==
    /\ ext[1].status = "fulfilled"
    /\ fetched[1].page = << << << "//p.scdn.co/def", "https://p.scdn.co/mp3-preview/abc" >>,
                               << "https://p.scdn.co/mp3-preview/abc", "//p.scdn.co/def" >> >> >>
    /\ result.results[1].previewUrls =
          << "//p.scdn.co/def", "https://p.scdn.co/mp3-preview/abc" >>

\* the extractor's starting state is a state of the whole call
ExtractInitReached == ExtractInit

\* C17: the steps run in a fixed order and an early failure stops the later
\* ones: no grant, search or page request is issued when the song name is
\* empty or a credential is missing; the search is issued only after the grant
\* succeeded; a page request only after the search returned a match.
C17_StepOrder ==
    /\ (pc # "idle" /\ (SongNameMissing(songName) \/ CredentialMissing)) =>
          /\ grantCalls = 0 /\ searchCalls = 0 /\ fetchCalls = <<>>
          /\ accessToken = Absent
    /\ searchCalls > 0 => (grantCalls = 1 /\ accessToken.type = "string")
    /\ accessToken.type = "undefined" => (searchCalls = 0 /\ ~response.answered)
    /\ fetchCalls # <<>> => (searchCalls = 1 /\ response.answered /\ Matches >= 1)
    /\ ~response.answered => (fetchCalls = <<>> /\ ext = <<>>)

\* C17 witness: the credential exchange failed; no search and no page request
\* followed
C17_Witness ==
    /\ Returned /\ caughtValue = <<ErrorOf("Network Error")>>
    /\ grantCalls = 1 /\ accessToken = Absent
    /\ searchCalls = 0 /\ fetchCalls = <<>>

====
